---- MODULE Spec2Model ----
(***************************************************************************)
(* cargo-arceos: the configuration-overlay and command-synthesis engine.   *)
(*                                                                         *)
(* One process invocation is modelled as a pipeline of steps:              *)
(*   Invoke (clap has parsed the command line)                             *)
(*   CargoBuild (CargoOptionsExt::build)                                   *)
(*   Apply (ArceOSOptions::apply), QemuApply (QEMUOptions::apply)          *)
(*   Spawn, Artifact (check_features), CargoExit (Cli::execute)            *)
(*   RunnerStart, ObjcopyExit, QemuExit (QEMUOptions::execute),            *)
(*   RunReturn (Cli::run).                                                 *)
(* CargoRunsRunner joins the two: the cargo child of a run invocation      *)
(* starts the registered runner command, which is parsed again.            *)
(* The file system (the axconfig.toml files) outlives an invocation.       *)
(***************************************************************************)
EXTENDS Integers, Sequences, FiniteSets, TLC

VARIABLES
    pc,        \* position of the current invocation
    sub,       \* subcommand of the current invocation (Cli variant)
    cargo,     \* the cargo_options struct: [target, args, release, profile, message_format]
    arceos,    \* ArceOSOptions: [arch, platform, soft_float, cpus, configs]
    qemu,      \* QEMUOptions: [smp, mem, bus, net, net_dump, disk, graphics, accel, debug]
    runnerBinary, \* Runner.binary: the produced binary's path (runner subcommand)
    argv,      \* argument vector of the std::process::Command being built
    cmdenv,    \* environment variables set on that Command (name -> value)
    piped,     \* the Command's stdout is piped (message stream is read)
    procenv,   \* environment of this process (what env::var reads)
    disk,      \* config_path -> file content, for the files that exist
    dirs,      \* directories that exist (binary_dir values)
    wrote,     \* fs::write was called by the current invocation's apply
    before,    \* config_path as the current apply found it: [exists, content]
    warnings,  \* crate::warn messages emitted by the current invocation
    stream,    \* CompilerArtifact messages read from cargo's stdout so far
    err,       \* the anyhow error returned to Cli::run (NoErr when none)
    spawned,   \* external programs launched by the current invocation, in order
    status,    \* ExitStatus of the last child waited for
    exit,      \* how the process ended: [done, code]
    origin     \* the run invocation whose cargo started this runner: [active, arceos, qemu]

vars == <<pc, sub, cargo, arceos, qemu, runnerBinary, argv, cmdenv, piped, procenv, disk,
          dirs, wrote, before, warnings, stream, err, spawned, status, exit,
          origin>>

\* ------------------------------------------------------------------ bounds
\* Largest --cpus value drawn.
MaxCpus == 2
\* Largest number of --configs files on one command line.
MaxConfigs == 2

\* ------------------------------------------------------- platform registry
None == "None"

Archs == {"Aarch64", "Loongarch64", "Riscv64", "X86_64"}

Platforms == {"Dummy", "AARCH64_BSTA1000B", "AARCH64_PHYTIUM_PI",
              "AARCH64_QEMU_VIRT", "AARCH64_RASPI4", "LOONGARCH64_QEMU_VIRT",
              "RISCV64_QEMU_VIRT", "X86_64_PC_OSLAB", "X86_64_QEMU_Q35"}

\* strum Display / AsRefStr of Platform (kebab-case, two explicit to_string).
PlatformName(p) ==
    CASE p = "Dummy" -> "dummy"
      [] p = "AARCH64_BSTA1000B" -> "aarch64-bsta1000b"
      [] p = "AARCH64_PHYTIUM_PI" -> "aarch64-phytium-pi"
      [] p = "AARCH64_QEMU_VIRT" -> "aarch64-qemu-virt"
      [] p = "AARCH64_RASPI4" -> "aarch64-raspi4"
      [] p = "LOONGARCH64_QEMU_VIRT" -> "loongarch64-qemu-virt"
      [] p = "RISCV64_QEMU_VIRT" -> "riscv64-qemu-virt"
      [] p = "X86_64_PC_OSLAB" -> "x86_64-pc-oslab"
      [] p = "X86_64_QEMU_Q35" -> "x86_64-qemu-q35"

\* strum EnumString of Platform: Platform::from_str; None when no variant matches.
PlatformFromStr(s) ==
    IF \E p \in Platforms : PlatformName(p) = s
    THEN CHOOSE p \in Platforms : PlatformName(p) = s
    ELSE None

\* strum Display / AsRefStr of Arch.
ArchName(a) ==
    CASE a = "Aarch64" -> "aarch64"
      [] a = "Loongarch64" -> "loongarch64"
      [] a = "Riscv64" -> "riscv64"
      [] a = "X86_64" -> "x86_64"

\* impl From<Arch> for Platform
ArchToPlatformSwapped(arch) ==
    CASE arch = "Aarch64" -> "AARCH64_QEMU_VIRT"
      [] arch = "Loongarch64" -> "RISCV64_QEMU_VIRT"
      [] arch = "Riscv64" -> "LOONGARCH64_QEMU_VIRT"
      [] arch = "X86_64" -> "X86_64_QEMU_Q35"

ArchToPlatform(arch) ==
    CASE arch = "Aarch64" -> "AARCH64_QEMU_VIRT"
      [] arch = "Loongarch64" -> "LOONGARCH64_QEMU_VIRT"
      [] arch = "Riscv64" -> "RISCV64_QEMU_VIRT"
      [] arch = "X86_64" -> "X86_64_QEMU_Q35"

\* impl From<Platform> for Arch
PlatformToArch(platform) ==
    CASE platform \in {"AARCH64_BSTA1000B", "AARCH64_PHYTIUM_PI",
                       "AARCH64_QEMU_VIRT", "AARCH64_RASPI4"} -> "Aarch64"
      [] platform = "LOONGARCH64_QEMU_VIRT" -> "Loongarch64"
      [] platform = "RISCV64_QEMU_VIRT" -> "Riscv64"
      [] platform \in {"X86_64_PC_OSLAB", "X86_64_QEMU_Q35"} -> "X86_64"
      [] platform = "Dummy" -> "X86_64"

\* impl From<ArchOrPlatform> for Platform
ResolvePlatform(aop) ==
    IF aop.arch # None THEN ArchToPlatform(aop.arch)
    ELSE IF aop.platform # None THEN aop.platform
    ELSE "Dummy"

\* ArceOSOptions::platform
OptPlatform(opts) == ResolvePlatform([arch |-> opts.arch, platform |-> opts.platform])

\* ArceOSOptions::arch
OptArch(opts) == PlatformToArch(OptPlatform(opts))

\* ArceOSOptions::target
TargetOf(arch, soft_float) ==
    CASE arch = "Aarch64" /\ ~soft_float -> "aarch64-unknown-none"
      [] arch = "Aarch64" /\ soft_float -> "aarch64-unknown-none-softfloat"
      [] arch = "Loongarch64" -> "loongarch64-unknown-none"
      [] arch = "Riscv64" -> "riscv64gc-unknown-none-elf"
      [] arch = "X86_64" -> "x86_64-unknown-none"

OptTarget(opts) == TargetOf(OptArch(opts), opts.soft_float)

\* ------------------------------------------------- configuration documents
\* A Config is a function from <<table, key>> to the TOML text of the value.
\* axconfig_gen::Config::GLOBAL_TABLE_NAME
GLOBAL_TABLE_NAME == "$GLOBAL"

EmptyConfig == [k \in {} |-> ""]

Item(table, key, value) == [k \in {<<table, key>>} |-> value]

\* include_str!("defconfig.toml"): the compiled-in defaults.  The file holds
\* the global `smp` item (apply unwraps its lookup) and shares no key with
\* a platform fragment (the built-in merge is `expect`ed to succeed).
DefConfig ==
    Item(GLOBAL_TABLE_NAME, "smp", "1") @@
    Item(GLOBAL_TABLE_NAME, "ticks-per-sec", "100")

\* include_str!("<platform>.toml"): the platform's fragment.
PlatConfig(platform) ==
    Item(GLOBAL_TABLE_NAME, "arch", ArchName(PlatformToArch(platform))) @@
    Item(GLOBAL_TABLE_NAME, "platform", PlatformName(platform))

\* Order in which dump_toml writes the items: the global table first, then
\* the named tables and, in a table, the keys, both in BTreeMap order.
KeyOrder ==
    << <<GLOBAL_TABLE_NAME, "arch">>, <<GLOBAL_TABLE_NAME, "platform">>,
       <<GLOBAL_TABLE_NAME, "smp">>, <<GLOBAL_TABLE_NAME, "ticks-per-sec">>,
       <<"app", "name">>, <<"net", "port">> >>

Ok(v) == [ok |-> TRUE, value |-> v]
Err(kind, path) == [ok |-> FALSE, kind |-> kind, path |-> path]

\* Config::merge as a layered overlay would do it: the other document's
\* items replace the ones already present.
mergeOverlay(self, other) == Ok(other @@ self)

\* Config::merge: the other document's items are added to self; an item
\* whose key self already holds makes the call fail ("Duplicate key").
merge(self, other) ==
    IF DOMAIN self \cap DOMAIN other # {}
    THEN Err("merge", None)
    ELSE Ok(self @@ other)

\* impl From<Platform> for Config
PlatformConfig(platform) == merge(DefConfig, PlatConfig(platform)).value

\* u32::to_string, then ConfigValue::new of it
CpusToString(cpus) == ToString(cpus)

\* config_at_mut(GLOBAL_TABLE_NAME, "smp") ... value_mut().update(cpus) dropped
updateSmpSkipped(config, cpus) == config

\* config_at_mut(GLOBAL_TABLE_NAME, "smp").unwrap().value_mut().update(cpus)
updateSmp(config, cpus) ==
    [config EXCEPT ![<<GLOBAL_TABLE_NAME, "smp">>] = CpusToString(cpus)]

\* Config::dump_toml: the items as lines <<table, key, value>> in KeyOrder.
RECURSIVE dumpFrom(_, _)
dumpFrom(config, i) ==
    IF i > Len(KeyOrder) THEN <<>>
    ELSE (IF KeyOrder[i] \in DOMAIN config
          THEN << <<KeyOrder[i][1], KeyOrder[i][2], config[KeyOrder[i]]>> >>
          ELSE <<>>) \o dumpFrom(config, i + 1)

dump_toml(config) == dumpFrom(config, 1)

\* ------------------------------------------------------------ file system
\* The override files a command line can name.  fs::read_to_string fails on
\* an unreadable one, Config::from_toml on an unparsable one.
OverrideFiles ==
    [p \in {"net.toml", "app.toml", "smp.toml", "plat.toml", "broken.toml",
            "missing.toml"} |->
        CASE p = "net.toml" ->
               [readable |-> TRUE, parsable |-> TRUE,
                config |-> Item("net", "port", "5555")]
          [] p = "app.toml" ->
               [readable |-> TRUE, parsable |-> TRUE,
                config |-> Item("app", "name", "\"shell\"")]
          [] p = "smp.toml" ->
               [readable |-> TRUE, parsable |-> TRUE,
                config |-> Item(GLOBAL_TABLE_NAME, "smp", "8")]
          [] p = "plat.toml" ->
               [readable |-> TRUE, parsable |-> TRUE,
                config |-> Item(GLOBAL_TABLE_NAME, "platform", "\"board\"")]
          [] p = "broken.toml" ->
               [readable |-> TRUE, parsable |-> FALSE, config |-> EmptyConfig]
          [] p = "missing.toml" ->
               [readable |-> FALSE, parsable |-> FALSE, config |-> EmptyConfig]]

\* Path::exists
Exists(fs, path) == path \in DOMAIN fs

\* fs::read_to_string(path).ok(): the content of an existing file
ReadFile(fs, path) ==
    [exists |-> Exists(fs, path),
     content |-> IF Exists(fs, path) THEN fs[path] ELSE <<>>]

WriteFile(fs, path, content) ==
    [p \in DOMAIN fs \cup {path} |-> IF p = path THEN content ELSE fs[p]]

\* Command::env
SetEnv(env, name, value) ==
    [n \in DOMAIN env \cup {name} |-> IF n = name THEN value ELSE env[n]]

NoEnv == [n \in {} |-> ""]

\* the loop of apply with an unreadable file passed over instead of reported
RECURSIVE MergeConfigsSkipUnreadable(_, _, _)
MergeConfigsSkipUnreadable(config, configs, i) ==
    IF i > Len(configs) THEN Ok(config)
    ELSE LET path == configs[i]
             f == OverrideFiles[path]
         IN  IF ~f.readable
             THEN MergeConfigsSkipUnreadable(config, configs, i + 1)
             ELSE IF ~f.parsable THEN Err("parse", path)
             ELSE LET m == merge(config, f.config)
                  IN  IF ~m.ok THEN Err("merge", path)
                      ELSE MergeConfigsSkipUnreadable(m.value, configs, i + 1)

\* The loop of apply over self.configs: fold the files, in order, into the
\* platform's document; stop at the first file that fails.
RECURSIVE MergeConfigs(_, _, _)
MergeConfigs(config, configs, i) ==
    IF i > Len(configs) THEN Ok(config)
    ELSE LET path == configs[i]
             f == OverrideFiles[path]
         IN  IF ~f.readable THEN Err("read", path)
             ELSE IF ~f.parsable THEN Err("parse", path)
             ELSE LET m == merge(config, f.config)
                  IN  IF ~m.ok THEN Err("merge", path)
                      ELSE MergeConfigs(m.value, configs, i + 1)

\* ------------------------------------------------------ cargo options
BuildSubs == {"build", "rustc", "check", "clippy", "run"}

\* Subcommands whose build() starts with the @args step.
ArgsSubs == {"rustc", "clippy", "run"}

\* cargo metadata's target_directory
MetadataTargetDirectory == "/ws/target"

\* CargoOptionsExt::target_dir
target_dir(c) ==
    IF c.target_dir # None THEN c.target_dir ELSE MetadataTargetDirectory

\* CargoOptionsExt::profile
profile(c) ==
    IF c.release THEN "release"
    ELSE IF c.profile # None THEN c.profile
    ELSE "debug"

RECURSIVE TargetArgs(_)
TargetArgs(targets) ==
    IF targets = <<>> THEN <<>>
    ELSE <<"--target", Head(targets)>> \o TargetArgs(Tail(targets))

\* cargo_options' command(): the cargo command line of the struct's fields.
CargoCommand(s, c) ==
    <<"cargo", s>>
    \o (IF c.release THEN <<"--release">> ELSE <<>>)
    \o (IF c.profile # None THEN <<"--profile", c.profile>> ELSE <<>>)
    \o TargetArgs(c.target)
    \o (IF c.args # <<>> THEN <<"--">> \o c.args ELSE <<>>)

Warning(kind, feature, package, at) ==
    [kind |-> kind, feature |-> feature, package |-> package, at |-> at]

\* impl_cargo_options_ext!(@args): warn and clear the extra arguments
ArgsStep(s, c) ==
    IF s \in ArgsSubs /\ c.args # <<>>
    THEN [cargo |-> [c EXCEPT !.args = <<>>],
          warn |-> <<Warning("args_ignored", None, None, 0)>>]
    ELSE [cargo |-> c, warn |-> <<>>]

\* @target with the clear left out
TargetStepKept(c) ==
    IF c.target # <<>>
    THEN [cargo |-> c, warn |-> <<Warning("target_ignored", None, None, 0)>>]
    ELSE [cargo |-> c, warn |-> <<>>]

\* impl_cargo_options_ext!(@target): clear a passed --target and warn
TargetStep(c) ==
    IF c.target # <<>>
    THEN [cargo |-> [c EXCEPT !.target = <<>>],
          warn |-> <<Warning("target_ignored", None, None, 0)>>]
    ELSE [cargo |-> c, warn |-> <<>>]

\* impl_cargo_options_ext!(@stdout): only the variants that have the step
PipesStdout(s, c) == s # "run" /\ c.message_format = <<>>

\* ------------------------------------------------------ ArceOSOptions
Join(a, b) == a \o "/" \o b

\* target_dir.join(target).join(profile)
BinaryDir(c, opts) == Join(Join(target_dir(c), OptTarget(opts)), profile(c))

ConfigPath(c, opts) == Join(BinaryDir(c, opts), "axconfig.toml")

\* the write test without the comparison: the file is always written
NeedsWriteAlways(old, config) == TRUE

\* fs::read_to_string(&config_path).ok().is_none_or(|old| old != config)
NeedsWrite(old, config) == ~old.exists \/ old.content # config

\* the format! of the RUSTFLAGS value without the -no-pie argument
RustFlagsNoPie(binary_dir, platform) ==
    "-C link-arg=-T" \o binary_dir \o "/linker_" \o PlatformName(platform)
    \o ".lds -C link-arg=-znostart-stop-gc"

\* the format! of the RUSTFLAGS value
RustFlags(binary_dir, platform) ==
    "-C link-arg=-T" \o binary_dir \o "/linker_" \o PlatformName(platform)
    \o ".lds -C link-arg=-no-pie -C link-arg=-znostart-stop-gc"

\* the AX_* assignments, then RUSTFLAGS for a platform that is not Dummy
ApplyEnv(env, c, opts) ==
    LET e1 == SetEnv(env, "AX_CONFIG_PATH", ConfigPath(c, opts))
        e2 == SetEnv(e1, "AX_PLATFORM", PlatformName(OptPlatform(opts)))
        e3 == SetEnv(e2, "AX_ARCH", ArchName(OptArch(opts)))
        e4 == SetEnv(e3, "AX_SMP", CpusToString(opts.cpus))
        e5 == SetEnv(e4, "AX_TARGET", OptTarget(opts))
        e6 == SetEnv(e5, "AX_MODE", profile(c))
        e7 == SetEnv(e6, "AX_LOG", opts.log)
        e8 == SetEnv(e7, "AX_IP", opts.ip)
        e9 == SetEnv(e8, "AX_GW", opts.gateway)
    IN  IF OptPlatform(opts) # "Dummy"
        THEN SetEnv(e9, "RUSTFLAGS",
                    RustFlags(BinaryDir(c, opts), OptPlatform(opts)))
        ELSE e9

\* const SMP
SMP == [name |-> "smp", cond |-> "number of CPUs > 1",
        packages |-> {"axlibc", "arceos_posix_api", "axstd", "axfeat",
                      "axhal", "axruntime", "axtask"}]

\* const FP_SIMD
FP_SIMD == [name |-> "fp_simd",
            cond |-> "compiling to AArch64 without soft float",
            packages |-> {"axlibc", "axstd", "axfeat", "axhal"}]

\* ArceOSOptions::features with the CPU test off by one
featuresOffByOne(opts) ==
    (IF opts.cpus > 2 THEN <<SMP>> ELSE <<>>)
    \o (IF OptArch(opts) = "Aarch64" /\ ~opts.soft_float
        THEN <<FP_SIMD>> ELSE <<>>)

\* ArceOSOptions::features
features(opts) ==
    (IF opts.cpus > 1 THEN <<SMP>> ELSE <<>>)
    \o (IF OptArch(opts) = "Aarch64" /\ ~opts.soft_float
        THEN <<FP_SIMD>> ELSE <<>>)

\* ArceOSOptions::check_features: the warnings of one artifact message
RECURSIVE CheckFrom(_, _, _, _)
CheckFrom(fs, package, declared, at) ==
    IF fs = <<>> THEN <<>>
    ELSE (IF package \in Head(fs).packages /\ Head(fs).name \notin declared
          THEN <<Warning("feature", Head(fs).name, package, at)>>
          ELSE <<>>) \o CheckFrom(Tail(fs), package, declared, at)

check_features(opts, package, declared, at) ==
    CheckFrom(features(opts), package, declared, at)

\* -------------------------------------------------------- QEMUOptions
\* strum AsRefStr of BusType (snake_case)
BusName(bus) == IF bus = "Pci" THEN "pci" ELSE "mmio"

\* BusType::vdev_suffix
vdev_suffix(bus) == IF bus = "Pci" THEN "pci" ELSE "device"

\* Option<BusType>::unwrap_or_default
BusOrDefault(bus) == IF bus = None THEN "Pci" ELSE bus

\* heck's to_shouty_snake_case on the target identifiers
ToShoutySnakeCase(target) ==
    CASE target = "aarch64-unknown-none" -> "AARCH64_UNKNOWN_NONE"
      [] target = "aarch64-unknown-none-softfloat" ->
             "AARCH64_UNKNOWN_NONE_SOFTFLOAT"
      [] target = "loongarch64-unknown-none" -> "LOONGARCH64_UNKNOWN_NONE"
      [] target = "riscv64gc-unknown-none-elf" -> "RISCV64GC_UNKNOWN_NONE_ELF"
      [] target = "x86_64-unknown-none" -> "X86_64_UNKNOWN_NONE"

\* The net option: None (absent), "Flag" (--net), "User" (--net=user).
\* QEMUOptions::apply: the runner command string
RunnerCommand(q) ==
    "cargo-arceos runner"
    \o (IF q.smp # None THEN " --smp " \o q.smp ELSE "")
    \o (IF q.mem # None THEN " --mem " \o q.mem ELSE "")
    \o (IF q.bus # None THEN " --bus " \o BusName(q.bus) ELSE "")
    \o (IF q.net # None
        THEN " --net" \o (IF q.net = "User" THEN "=user" ELSE "")
        ELSE "")
    \o (IF q.net_dump # None THEN " --net-dump " \o q.net_dump ELSE "")
    \o (IF q.disk # None THEN " --disk " \o q.disk ELSE "")
    \o (IF q.graphics THEN " --graphics" ELSE "")
    \o (IF q.accel THEN " --accel" ELSE "")
    \o (IF q.debug THEN " --debug" ELSE "")

RunnerVar(target) == "CARGO_TARGET_" \o ToShoutySnakeCase(target) \o "_RUNNER"

\* QEMUOptions::execute: the machine table
MachineOf(platform) ==
    CASE platform = "AARCH64_QEMU_VIRT" ->
             [supported |-> TRUE, machine |-> "virt", mem |-> None]
      [] platform = "AARCH64_RASPI4" ->
             [supported |-> TRUE, machine |-> "raspi4b", mem |-> "2G"]
      [] platform = "LOONGARCH64_QEMU_VIRT" ->
             [supported |-> TRUE, machine |-> "virt", mem |-> "1G"]
      [] platform = "RISCV64_QEMU_VIRT" ->
             [supported |-> TRUE, machine |-> "virt", mem |-> None]
      [] platform = "X86_64_QEMU_Q35" ->
             [supported |-> TRUE, machine |-> "q35", mem |-> None]
      [] OTHER -> [supported |-> FALSE, machine |-> None, mem |-> None]

\* QEMUOptions::execute: the emulator of an architecture
ProgramOf(arch) ==
    CASE arch = "Aarch64" -> "qemu-system-aarch64"
      [] arch = "Loongarch64" -> "qemu-system-loongarch64"
      [] arch = "Riscv64" -> "qemu-system-riscv64"
      [] arch = "X86_64" -> "qemu-system-x86_64"

\* QEMUOptions::execute: the architectures whose image rust-objcopy converts
NeedsObjcopy(arch) == arch \in {"Aarch64", "Riscv64"}

\* PathBuf::with_extension("bin") of a binary path that has no extension
WithExtensionBin(binary) == binary \o ".bin"

KernelOf(arch, binary) ==
    IF NeedsObjcopy(arch) THEN WithExtensionBin(binary) ELSE binary

\* the hosts the tool is built for: cfg!(target_arch), cfg!(target_vendor),
\* and whether /dev/kvm exists
Hosts == [arch : {"x86_64", "aarch64", "other"}, apple : BOOLEAN, kvm : BOOLEAN]

\* QEMUOptions::execute: acceleration auto-detection
AutoAccel(arch, host) ==
    /\ IF host.arch = "x86_64" THEN arch = "X86_64"
       ELSE IF host.arch = "aarch64" THEN arch = "Aarch64"
       ELSE FALSE
    /\ IF host.apple THEN TRUE ELSE host.kvm

\* the debug / acceleration step with the acceleration decided first
DebugAccelArgsAccelFirst(q, arch, host) ==
    (IF q.debug THEN <<"-s", "-S">> ELSE <<>>)
    \o (IF q.accel \/ AutoAccel(arch, host)
        THEN <<"-cpu", "host", "-accel", IF host.apple THEN "hvf" ELSE "kvm">>
        ELSE <<>>)

\* QEMUOptions::execute: the debug / acceleration step
DebugAccelArgs(q, arch, host) ==
    IF q.debug THEN <<"-s", "-S">>
    ELSE IF q.accel \/ AutoAccel(arch, host)
         THEN <<"-cpu", "host", "-accel", IF host.apple THEN "hvf" ELSE "kvm">>
         ELSE <<>>

\* the console step with the headless flag added whatever was requested
GraphicsArgsAlwaysHeadless(q) ==
    (IF q.graphics
     THEN <<"-device", "virtio-gpu-" \o vdev_suffix(BusOrDefault(q.bus)),
            "-vga", "none", "-serial", "mon:stdio">>
     ELSE <<>>)
    \o <<"-nographic">>

\* QEMUOptions::execute: graphics or headless console
GraphicsArgs(q) ==
    IF q.graphics
    THEN <<"-device", "virtio-gpu-" \o vdev_suffix(BusOrDefault(q.bus)),
           "-vga", "none", "-serial", "mon:stdio">>
    ELSE <<"-nographic">>

\* the memory step with the machine table's default taken first
MemArgsDefaultFirst(q, platform) ==
    IF MachineOf(platform).mem # None
    THEN <<"-m", MachineOf(platform).mem>>
    ELSE IF q.mem # None THEN <<"-m", q.mem>> ELSE <<>>

\* QEMUOptions::execute: the memory argument
MemArgs(q, platform) ==
    IF q.mem # None THEN <<"-m", q.mem>>
    ELSE IF MachineOf(platform).mem # None
         THEN <<"-m", MachineOf(platform).mem>>
         ELSE <<>>

\* QEMUOptions::execute: network, packet dump and disk devices
DeviceArgs(q) ==
    (IF q.net # None
     THEN <<"-device",
            "virtio-net-" \o vdev_suffix(BusOrDefault(q.bus)) \o ",netdev=net0",
            "-netdev",
            "user,id=net0,hostfwd=tcp::5555-:5555,hostfwd=udp::5555-:5555">>
     ELSE <<>>)
    \o (IF q.net_dump # None
        THEN <<"-object",
               "filter-dump,id=dump0,netdev=net0,file=" \o q.net_dump>>
        ELSE <<>>)
    \o (IF q.disk # None
        THEN <<"-device",
               "virtio-blk-" \o vdev_suffix(BusOrDefault(q.bus)) \o ",drive=disk0",
               "-drive", "id=disk0,if=none,format=raw,file=" \o q.disk>>
        ELSE <<>>)

\* QEMUOptions::execute: the emulator's command line
QemuArgv(q, platform, binary, cpus, host) ==
    LET arch == PlatformToArch(platform)
    IN  <<ProgramOf(arch), "-kernel", KernelOf(arch, binary),
          "-machine", MachineOf(platform).machine,
          "-smp", IF q.smp # None THEN q.smp ELSE cpus>>
        \o (IF arch = "Aarch64" THEN <<"-cpu", "cortex-a72">> ELSE <<>>)
        \o MemArgs(q, platform)
        \o DeviceArgs(q)
        \o GraphicsArgs(q)
        \o DebugAccelArgs(q, arch, host)

\* rust-objcopy's command line
ObjcopyArgv(binary) ==
    <<"rust-objcopy", "--strip-all", "-O", "binary", binary,
      WithExtensionBin(binary)>>

\* ExitStatus values: [kind, code]; kind "signal" carries no code, "nospawn"
\* is Command::status failing to start the program.
Success(st) == st.kind = "code" /\ st.code = 0

\* ------------------------------------------------------- option defaults
DefaultCargo ==
    [target |-> <<>>, args |-> <<>>, release |-> FALSE, profile |-> None,
     message_format |-> <<>>, target_dir |-> None]

\* clap's defaults of ArceOSOptions
DefaultArceos ==
    [arch |-> None, platform |-> None, soft_float |-> FALSE, cpus |-> 1,
     configs |-> <<>>, log |-> "WARN", ip |-> "10.0.2.15",
     gateway |-> "10.0.2.2"]

DefaultQemu ==
    [smp |-> None, mem |-> None, bus |-> None, net |-> None,
     net_dump |-> None, disk |-> None, graphics |-> FALSE, accel |-> FALSE,
     debug |-> FALSE]

\* ------------------------------------------------------------- actions
NoErr == [kind |-> "none", path |-> None]
NoStatus == [kind |-> "none", code |-> 0]
Running == [done |-> FALSE, code |-> 0]
Exited(code) == [done |-> TRUE, code |-> code]

Finished == {"exited", "returned", "rejected", "panicked"}

\* What clap's declarations refuse: arch together with platform (group
\* multiple = false), debug together with accel (conflicts_with), net_dump
\* without net (requires).
ClapAccepts(cli) ==
    /\ ~(cli.arceos.arch # None /\ cli.arceos.platform # None)
    /\ ~(cli.qemu.debug /\ cli.qemu.accel)
    /\ (cli.qemu.net_dump # None => cli.qemu.net # None)

\* a process that was started from a shell, not by a run invocation's cargo
NoOrigin == [active |-> FALSE, arceos |-> DefaultArceos, qemu |-> DefaultQemu]

\* Cli::parse: a process starts with the command line `cli`.
Invoke(cli) ==
    /\ pc = "idle"
    /\ UNCHANGED origin
    /\ sub' = cli.sub
    /\ cargo' = cli.cargo
    /\ arceos' = cli.arceos
    /\ qemu' = cli.qemu
    /\ runnerBinary' = cli.binary
    /\ IF ClapAccepts(cli)
       THEN pc' = "parsed" /\ exit' = Running
       ELSE pc' = "rejected" /\ exit' = Exited(2)
    /\ UNCHANGED <<argv, cmdenv, piped, procenv, disk, dirs, wrote, before,
                   warnings, stream, err, spawned, status>>

\* The process is gone: nothing of it is left but the files it wrote.  The
\* next command line starts a new process on that file system.
ProcessEnd ==
    /\ pc \in Finished
    /\ pc' = "idle"
    /\ sub' = None
    /\ cargo' = DefaultCargo
    /\ arceos' = DefaultArceos
    /\ qemu' = DefaultQemu
    /\ runnerBinary' = None
    /\ argv' = <<>>
    /\ cmdenv' = NoEnv
    /\ piped' = FALSE
    /\ wrote' = FALSE
    /\ before' = [exists |-> FALSE, content |-> <<>>]
    /\ warnings' = <<>>
    /\ stream' = <<>>
    /\ err' = NoErr
    /\ spawned' = <<>>
    /\ status' = NoStatus
    /\ exit' = Running
    /\ origin' = NoOrigin
    /\ UNCHANGED <<procenv, disk, dirs>>

\* CargoOptionsExt::build
CargoBuild ==
    /\ pc = "parsed"
    /\ UNCHANGED origin
    /\ sub \in BuildSubs
    /\ LET a == ArgsStep(sub, cargo)
           t == TargetStep(a.cargo)
       IN  /\ cargo' = t.cargo
           /\ warnings' = warnings \o a.warn \o t.warn
           /\ piped' = PipesStdout(sub, t.cargo)
           /\ argv' = CargoCommand(sub, t.cargo)
                      \o (IF PipesStdout(sub, t.cargo)
                          THEN <<"--message-format=json-render-diagnostics">>
                          ELSE <<>>)
    /\ pc' = "built"
    /\ UNCHANGED <<sub, arceos, qemu, runnerBinary, cmdenv, procenv, disk, dirs,
                   wrote, before, stream, err, spawned, exit, status>>

\* ArceOSOptions::apply
Apply ==
    /\ pc = "built"
    /\ UNCHANGED origin
    /\ LET config_path == ConfigPath(cargo, arceos)
           old == ReadFile(disk, config_path)
           merged == MergeConfigs(PlatformConfig(OptPlatform(arceos)),
                                  arceos.configs, 1)
       IN  /\ argv' = argv \o <<"--target", OptTarget(arceos)>>
           /\ dirs' = IF Exists(disk, config_path) THEN dirs
                      ELSE dirs \cup {BinaryDir(cargo, arceos)}
           /\ before' = old
           /\ IF ~merged.ok
              THEN /\ err' = [kind |-> merged.kind, path |-> merged.path]
                   /\ pc' = "failed"
                   /\ UNCHANGED <<disk, wrote, cmdenv>>
              ELSE LET config == dump_toml(updateSmp(merged.value, arceos.cpus))
                   IN  /\ wrote' = NeedsWrite(old, config)
                       /\ disk' = IF NeedsWrite(old, config)
                                  THEN WriteFile(disk, config_path, config)
                                  ELSE disk
                       /\ cmdenv' = ApplyEnv(cmdenv, cargo, arceos)
                       /\ err' = NoErr
                       /\ pc' = IF sub = "run" THEN "applied" ELSE "ready"
    /\ UNCHANGED <<sub, cargo, arceos, qemu, runnerBinary, piped, procenv, warnings,
                   stream, spawned, exit, status>>

\* QEMUOptions::apply (Run::build)
QemuApply ==
    /\ pc = "applied"
    /\ UNCHANGED origin
    /\ cmdenv' = SetEnv(cmdenv, RunnerVar(OptTarget(arceos)), RunnerCommand(qemu))
    /\ pc' = "ready"
    /\ UNCHANGED <<sub, cargo, arceos, qemu, runnerBinary, argv, piped, procenv, disk,
                   dirs, wrote, before, warnings, stream, err, spawned, exit, status>>

\* Cli::execute: command.spawn()
Spawn ==
    /\ pc = "ready"
    /\ UNCHANGED origin
    /\ spawned' = Append(spawned, argv[1])
    /\ pc' = "spawned"
    /\ UNCHANGED <<sub, cargo, arceos, qemu, runnerBinary, argv, cmdenv, piped,
                   procenv, disk, dirs, wrote, before, warnings, stream, err,
                   exit, status>>

\* Largest number of artifact messages read in one invocation.
MaxArtifacts == 2

\* Cli::execute: a CompilerArtifact message arrives on the piped stdout
Artifact(package, declared) ==
    /\ pc = "spawned"
    /\ UNCHANGED origin
    /\ piped
    /\ Len(stream) < MaxArtifacts
    /\ stream' = Append(stream, [package |-> package, features |-> declared])
    /\ warnings' = warnings
                   \o check_features(arceos, package, declared, Len(stream) + 1)
    /\ UNCHANGED <<pc, sub, cargo, arceos, qemu, runnerBinary, argv, cmdenv, piped,
                   procenv, disk, dirs, wrote, before, err, spawned, exit, status>>

\* Cli::execute: child.wait(), then process::exit(status.code().unwrap_or(101))
CargoExit(st) ==
    /\ pc = "spawned"
    /\ UNCHANGED origin
    /\ status' = st
    /\ exit' = Exited(IF st.kind = "code" THEN st.code ELSE 101)
    /\ pc' = "exited"
    /\ UNCHANGED <<sub, cargo, arceos, qemu, runnerBinary, argv, cmdenv, piped,
                   procenv, disk, dirs, wrote, before, warnings, stream, err,
                   spawned>>

\* Cli::run: execute returned; an error is printed and dropped, run returns
\* () to main, and a main that returns ends the process with code 0.
RunReturn ==
    /\ pc \in {"failed", "ok"}
    /\ UNCHANGED origin
    /\ pc' = "returned"
    /\ exit' = Exited(0)
    /\ UNCHANGED <<sub, cargo, arceos, qemu, runnerBinary, argv, cmdenv, piped,
                   procenv, disk, dirs, wrote, before, warnings, stream, err,
                   spawned, status>>

\* QEMUOptions::execute from `let cpus = env::var("AX_SMP").unwrap()` to the
\* start of the emulator by run_command; the unwrap panics without AX_SMP.
LaunchQemu(platform, host) ==
    IF "AX_SMP" \notin DOMAIN procenv
    THEN /\ pc' = "panicked"
         /\ exit' = Exited(101)
         /\ UNCHANGED <<argv, spawned>>
    ELSE /\ argv' = QemuArgv(qemu, platform, runnerBinary, procenv["AX_SMP"], host)
         /\ spawned' = Append(spawned, ProgramOf(PlatformToArch(platform)))
         /\ pc' = "qemu"
         /\ exit' = exit

\* Cli::execute (Runner) and QEMUOptions::execute up to the first external
\* program it runs.
RunnerStart(host) ==
    /\ pc = "parsed"
    /\ UNCHANGED origin
    /\ sub = "runner"
    /\ IF "AX_PLATFORM" \notin DOMAIN procenv
       THEN /\ err' = [kind |-> "env", path |-> "AX_PLATFORM"]
            /\ pc' = "failed"
            /\ UNCHANGED <<argv, spawned, exit>>
       ELSE LET platform == PlatformFromStr(procenv["AX_PLATFORM"])
            IN  IF platform = None
                THEN /\ err' = [kind |-> "parse", path |-> "AX_PLATFORM"]
                     /\ pc' = "failed"
                     /\ UNCHANGED <<argv, spawned, exit>>
                ELSE IF ~MachineOf(platform).supported
                THEN /\ err' = [kind |-> "unsupported", path |-> PlatformName(platform)]
                     /\ pc' = "failed"
                     /\ UNCHANGED <<argv, spawned, exit>>
                ELSE IF NeedsObjcopy(PlatformToArch(platform))
                THEN /\ argv' = ObjcopyArgv(runnerBinary)
                     /\ spawned' = Append(spawned, "rust-objcopy")
                     /\ pc' = "objcopy"
                     /\ UNCHANGED <<err, exit>>
                ELSE /\ LaunchQemu(platform, host)
                     /\ err' = err
    /\ UNCHANGED <<sub, cargo, arceos, qemu, runnerBinary, cmdenv, piped,
                   procenv, disk, dirs, wrote, before, warnings, stream, status>>

\* run_command(rust-objcopy) returns; on success the emulator is started.
ObjcopyExit(st, host) ==
    /\ pc = "objcopy"
    /\ UNCHANGED origin
    /\ status' = st
    /\ IF Success(st)
       THEN /\ LaunchQemu(PlatformFromStr(procenv["AX_PLATFORM"]), host)
            /\ err' = err
       ELSE /\ err' = [kind |-> IF st.kind = "nospawn" THEN "io" ELSE "command",
                       path |-> "rust-objcopy"]
            /\ pc' = "failed"
            /\ UNCHANGED <<argv, spawned, exit>>
    /\ UNCHANGED <<sub, cargo, arceos, qemu, runnerBinary, cmdenv, piped,
                   procenv, disk, dirs, wrote, before, warnings, stream>>

\* run_command(emulator) returns, and with it QEMUOptions::execute.
QemuExit(st) ==
    /\ pc = "qemu"
    /\ UNCHANGED origin
    /\ status' = st
    /\ IF Success(st)
       THEN pc' = "ok" /\ err' = err
       ELSE /\ err' = [kind |-> IF st.kind = "nospawn" THEN "io" ELSE "command",
                       path |-> argv[1]]
            /\ pc' = "failed"
    /\ UNCHANGED <<sub, cargo, arceos, qemu, runnerBinary, argv, cmdenv, piped,
                   procenv, disk, dirs, wrote, before, warnings, stream,
                   spawned, exit>>

\* ------------------------------------------------------------- inputs
Cli(s, c, a, q, b) ==
    [sub |-> s, cargo |-> c, arceos |-> a, qemu |-> q, binary |-> b]

\* -A / -P as clap can deliver them, and one pair the group refuses
ArchOrPlatforms ==
    {[arch |-> a, platform |-> None] : a \in Archs}
    \cup {[arch |-> None, platform |-> p] : p \in Platforms}
    \cup {[arch |-> None, platform |-> None],
          [arch |-> "Riscv64", platform |-> "AARCH64_RASPI4"]}

WithAop(a, aop) == [a EXCEPT !.arch = aop.arch, !.platform = aop.platform]

ConfigLists == UNION {[1..n -> DOMAIN OverrideFiles] : n \in 0..MaxConfigs}

ExitStatuses ==
    {[kind |-> "code", code |-> 0], [kind |-> "code", code |-> 1],
     [kind |-> "code", code |-> 3], [kind |-> "signal", code |-> 0],
     [kind |-> "nospawn", code |-> 0]}

\* what child.wait() can report of a cargo that was spawned
WaitStatuses == {st \in ExitStatuses : st.kind # "nospawn"}

\* Repeated builds into one output directory, by the two platforms that
\* share the default target: the configuration merger.
MergeInputs ==
    {Cli("build", DefaultCargo,
         [WithAop(DefaultArceos, aop) EXCEPT !.cpus = n, !.configs = cs],
         DefaultQemu, None) :
       aop \in {[arch |-> None, platform |-> None],
                [arch |-> None, platform |-> "X86_64_QEMU_Q35"]},
       n \in 1..MaxCpus, cs \in ConfigLists}

Init ==
    /\ pc = "idle"
    /\ sub = None
    /\ cargo = DefaultCargo
    /\ arceos = DefaultArceos
    /\ qemu = DefaultQemu
    /\ runnerBinary = None
    /\ argv = <<>>
    /\ cmdenv = NoEnv
    /\ piped = FALSE
    /\ procenv = NoEnv
    /\ disk = [p \in {} |-> <<>>]
    /\ dirs = {}
    /\ wrote = FALSE
    /\ before = [exists |-> FALSE, content |-> <<>>]
    /\ warnings = <<>>
    /\ stream = <<>>
    /\ err = NoErr
    /\ spawned = <<>>
    /\ status = NoStatus
    /\ exit = Running
    /\ origin = NoOrigin

Next ==
    \/ pc = "idle" /\ \E cli \in MergeInputs : Invoke(cli)
    \/ CargoBuild
    \/ Apply
    \/ Spawn
    \/ \E st \in WaitStatuses : CargoExit(st)
    \/ RunReturn
    \/ ProcessEnd

Spec == Init /\ [][Next]_vars

\* ---------------------------------------------- the option translator
QemuSamples ==
    {DefaultQemu,
     [DefaultQemu EXCEPT !.smp = "4", !.mem = "512M", !.bus = "Mmio",
                         !.net = "User", !.net_dump = "net.pcap",
                         !.disk = "disk.img", !.graphics = TRUE,
                         !.debug = TRUE],
     [DefaultQemu EXCEPT !.net = "Flag", !.accel = TRUE],
     [DefaultQemu EXCEPT !.accel = TRUE, !.debug = TRUE]}

TargetLists ==
    {<<>>, <<"thumbv7em-none-eabi">>,
     <<"x86_64-unknown-linux-gnu", "wasm32-wasip1">>}

\* One invocation of every building subcommand, for every way of naming the
\* platform, with and without values passed to cargo's own options.
TranslateInputs ==
    {c \in {Cli(s, [DefaultCargo EXCEPT !.target = t, !.args = xs, !.release = r,
                                 !.profile = pf],
         [WithAop(DefaultArceos, aop) EXCEPT !.soft_float = sf],
         q, None) :
       s \in BuildSubs, t \in TargetLists, xs \in {<<>>, <<"--verbose">>},
       r \in BOOLEAN, pf \in {None, "bench"}, aop \in ArchOrPlatforms,
       sf \in BOOLEAN, q \in QemuSamples} :
       \* only rustc, clippy and run take extra arguments, only run VM options
       /\ (c.sub \notin ArgsSubs => c.cargo.args = <<>>)
       /\ (c.sub # "run" => c.qemu = DefaultQemu)}

NextTranslate ==
    \/ pc = "idle" /\ \E cli \in TranslateInputs : Invoke(cli)
    \/ CargoBuild
    \/ Apply
    \/ QemuApply
    \/ Spawn
    \/ \E st \in WaitStatuses : CargoExit(st)

SpecTranslate == Init /\ [][NextTranslate]_vars

\* ------------------------------------------- the feature consistency check
FeaturePackages == {"axhal", "axtask", "myapp"}

DeclaredSets == SUBSET {"smp", "fp_simd"}

FeatureInputs ==
    {Cli(s, [DefaultCargo EXCEPT !.message_format = mf],
         [WithAop(DefaultArceos, aop) EXCEPT !.soft_float = sf, !.cpus = n],
         DefaultQemu, None) :
       s \in {"build", "run"}, mf \in {<<>>, <<"short">>},
       aop \in {[arch |-> None, platform |-> None],
                [arch |-> "Aarch64", platform |-> None],
                [arch |-> None, platform |-> "RISCV64_QEMU_VIRT"]},
       sf \in BOOLEAN, n \in 1..MaxCpus}

NextFeatures ==
    \/ pc = "idle" /\ \E cli \in FeatureInputs : Invoke(cli)
    \/ CargoBuild
    \/ Apply
    \/ QemuApply
    \/ Spawn
    \/ \E package \in FeaturePackages, declared \in DeclaredSets :
          Artifact(package, declared)
    \/ \E st \in WaitStatuses : CargoExit(st)

SpecFeatures == Init /\ [][NextFeatures]_vars

\* ------------------------------------------------------ the runner phase
DeviceSamples ==
    {[bus |-> None, net |-> None, net_dump |-> None, disk |-> None],
     [bus |-> None, net |-> "Flag", net_dump |-> None, disk |-> None],
     [bus |-> "Mmio", net |-> "User", net_dump |-> "net.pcap", disk |-> None],
     [bus |-> "Pci", net |-> None, net_dump |-> None, disk |-> "disk.img"],
     [bus |-> "Mmio", net |-> "Flag", net_dump |-> "net.pcap",
      disk |-> "disk.img"],
     [bus |-> None, net |-> None, net_dump |-> "net.pcap", disk |-> None]}

QemuInputs ==
    {[DefaultQemu EXCEPT !.smp = smp, !.mem = mem, !.bus = d.bus,
                         !.net = d.net, !.net_dump = d.net_dump,
                         !.disk = d.disk, !.graphics = g, !.accel = a,
                         !.debug = dbg] :
       smp \in {None, "4"}, mem \in {None, "512M"}, d \in DeviceSamples,
       g \in BOOLEAN, a \in BOOLEAN, dbg \in BOOLEAN}

RunnerInputs ==
    {Cli("runner", DefaultCargo, DefaultArceos, q, "/ws/target/app") :
       q \in QemuInputs}

\* The environment cargo hands to the runner, or one a user started it in:
\* AX_PLATFORM and AX_SMP set (to a name that may be no platform) or not.
RunnerEnvs ==
    {[n \in (IF plat = None THEN {} ELSE {"AX_PLATFORM"})
            \cup (IF smp = None THEN {} ELSE {"AX_SMP"}) |->
        IF n = "AX_PLATFORM" THEN plat ELSE smp] :
       plat \in {None, "qemu-virt"} \cup {PlatformName(p) : p \in Platforms},
       smp \in {None, CpusToString(MaxCpus)}}

InitRunner ==
    /\ pc = "idle"
    /\ sub = None
    /\ cargo = DefaultCargo
    /\ arceos = DefaultArceos
    /\ qemu = DefaultQemu
    /\ runnerBinary = None
    /\ argv = <<>>
    /\ cmdenv = NoEnv
    /\ piped = FALSE
    /\ procenv \in RunnerEnvs
    /\ disk = [p \in {} |-> <<>>]
    /\ dirs = {}
    /\ wrote = FALSE
    /\ before = [exists |-> FALSE, content |-> <<>>]
    /\ warnings = <<>>
    /\ stream = <<>>
    /\ err = NoErr
    /\ spawned = <<>>
    /\ status = NoStatus
    /\ exit = Running
    /\ origin = NoOrigin

NextRunner ==
    \/ pc = "idle" /\ \E cli \in RunnerInputs : Invoke(cli)
    \/ \E host \in Hosts : RunnerStart(host)
    \/ \E st \in ExitStatuses, host \in Hosts : ObjcopyExit(st, host)
    \/ \E st \in ExitStatuses : QemuExit(st)
    \/ RunReturn

SpecRunner == InitRunner /\ [][NextRunner]_vars

\* ------------------------------------------- the two-phase runner protocol
\* A run invocation registers the runner command; its cargo child builds the
\* binary and starts `cargo-arceos runner ... <binary>` in the environment it
\* was given.  From then on the state is the runner process's, and `origin`
\* keeps what the run invocation was started with.

\* the white-space separated words of an option value
WordsOf(value) ==
    IF value = "my disk.img" THEN <<"my", "disk.img">> ELSE <<value>>

ProtocolDevices ==
    {[bus |-> None, net |-> None, net_dump |-> None, disk |-> None],
     [bus |-> "Mmio", net |-> "User", net_dump |-> "net.pcap",
      disk |-> "disk.img"],
     [bus |-> "Pci", net |-> "Flag", net_dump |-> None, disk |-> None],
     [bus |-> None, net |-> None, net_dump |-> None, disk |-> "my disk.img"]}

ProtocolQemu ==
    {[DefaultQemu EXCEPT !.smp = smp, !.mem = mem, !.bus = d.bus,
                         !.net = d.net, !.net_dump = d.net_dump,
                         !.disk = d.disk, !.graphics = g, !.accel = a,
                         !.debug = dbg] :
       smp \in {None, "4"}, mem \in {None, "512M"}, d \in ProtocolDevices,
       g \in BOOLEAN, a \in BOOLEAN, dbg \in BOOLEAN}

\* the words of the string QEMUOptions::apply builds: every piece it pushes
\* starts with a space, so the words are those of the pieces
RunnerWords(q) ==
    <<"cargo-arceos", "runner">>
    \o (IF q.smp # None THEN <<"--smp">> \o WordsOf(q.smp) ELSE <<>>)
    \o (IF q.mem # None THEN <<"--mem">> \o WordsOf(q.mem) ELSE <<>>)
    \o (IF q.bus # None THEN <<"--bus", BusName(q.bus)>> ELSE <<>>)
    \o (IF q.net # None
        THEN <<IF q.net = "User" THEN "--net=user" ELSE "--net">>
        ELSE <<>>)
    \o (IF q.net_dump # None THEN <<"--net-dump">> \o WordsOf(q.net_dump)
        ELSE <<>>)
    \o (IF q.disk # None THEN <<"--disk">> \o WordsOf(q.disk) ELSE <<>>)
    \o (IF q.graphics THEN <<"--graphics">> ELSE <<>>)
    \o (IF q.accel THEN <<"--accel">> ELSE <<>>)
    \o (IF q.debug THEN <<"--debug">> ELSE <<>>)

RECURSIVE JoinWords(_)
JoinWords(ws) ==
    IF Len(ws) = 1 THEN ws[1]
    ELSE ws[1] \o " " \o JoinWords(Tail(ws))

\* cargo reads the runner from the environment as one string and splits it
\* at white space (there is no quoting): the words whose join it is
SplitWhitespace(str) ==
    CHOOSE ws \in {RunnerWords(q) : q \in ProtocolQemu} : JoinWords(ws) = str

\* cargo's name for the runner variable of the target it builds for
CargoRunnerKey(target) ==
    CASE target = "aarch64-unknown-none" ->
             "CARGO_TARGET_AARCH64_UNKNOWN_NONE_RUNNER"
      [] target = "aarch64-unknown-none-softfloat" ->
             "CARGO_TARGET_AARCH64_UNKNOWN_NONE_SOFTFLOAT_RUNNER"
      [] target = "loongarch64-unknown-none" ->
             "CARGO_TARGET_LOONGARCH64_UNKNOWN_NONE_RUNNER"
      [] target = "riscv64gc-unknown-none-elf" ->
             "CARGO_TARGET_RISCV64GC_UNKNOWN_NONE_ELF_RUNNER"
      [] target = "x86_64-unknown-none" ->
             "CARGO_TARGET_X86_64_UNKNOWN_NONE_RUNNER"

\* the value of the last --target of a cargo command line
TargetOfArgv(args) ==
    LET is == {i \in 1..(Len(args) - 1) : args[i] = "--target"}
    IN  args[(CHOOSE i \in is : \A j \in is : j <= i) + 1]

\* a child's environment: the parent's, with the Command's variables set
ChildEnv(env, set) ==
    [n \in DOMAIN env \cup DOMAIN set |->
        IF n \in DOMAIN set THEN set[n] ELSE env[n]]

\* clap, Runner: the options that take a value, and every option word
ValueOptions == {"--smp", "--mem", "--bus", "--net-dump", "--disk"}

OptionWords ==
    ValueOptions \cup {"--net", "--net=user", "--graphics", "--accel", "--debug"}

NoParse == [ok |-> TRUE, qemu |-> DefaultQemu, binary |-> None]

WithValue(q, opt, v) ==
    CASE opt = "--smp" -> [q EXCEPT !.smp = v]
      [] opt = "--mem" -> [q EXCEPT !.mem = v]
      [] opt = "--bus" -> [q EXCEPT !.bus = IF v = "pci" THEN "Pci" ELSE "Mmio"]
      [] opt = "--net-dump" -> [q EXCEPT !.net_dump = v]
      [] opt = "--disk" -> [q EXCEPT !.disk = v]

\* clap, Runner: the arguments after the subcommand's name.  An option takes
\* the next word as its value; a word that is no option is the binary; a
\* second such word is an unexpected argument.
RECURSIVE ParseFrom(_, _, _)
ParseFrom(args, i, acc) ==
    IF ~acc.ok \/ i > Len(args) THEN acc
    ELSE LET w == args[i]
         IN  IF w \in ValueOptions
             THEN IF i = Len(args) \/ args[i + 1] \in OptionWords
                     \/ (w = "--bus" /\ args[i + 1] \notin {"pci", "mmio"})
                  THEN [acc EXCEPT !.ok = FALSE]
                  ELSE ParseFrom(args, i + 2,
                           [acc EXCEPT !.qemu = WithValue(@, w, args[i + 1])])
             ELSE IF w = "--net"
             THEN ParseFrom(args, i + 1, [acc EXCEPT !.qemu.net = "Flag"])
             ELSE IF w = "--net=user"
             THEN ParseFrom(args, i + 1, [acc EXCEPT !.qemu.net = "User"])
             ELSE IF w = "--graphics"
             THEN ParseFrom(args, i + 1, [acc EXCEPT !.qemu.graphics = TRUE])
             ELSE IF w = "--accel"
             THEN ParseFrom(args, i + 1, [acc EXCEPT !.qemu.accel = TRUE])
             ELSE IF w = "--debug"
             THEN ParseFrom(args, i + 1, [acc EXCEPT !.qemu.debug = TRUE])
             ELSE IF acc.binary = None
             THEN ParseFrom(args, i + 1, [acc EXCEPT !.binary = w])
             ELSE [acc EXCEPT !.ok = FALSE]

\* Cli::parse of `runner ...`: the binary is required
ParseRunner(args) ==
    IF args = <<>> \/ args[1] # "runner" THEN [NoParse EXCEPT !.ok = FALSE]
    ELSE LET r == ParseFrom(args, 2, NoParse)
         IN  [r EXCEPT !.ok = r.ok /\ r.binary # None]

\* the binary cargo built for the run
BuiltBinary(c, opts) == Join(BinaryDir(c, opts), "app")

\* cargo, the child of a run invocation, has built the binary and starts the
\* runner registered for its target, with the binary's path appended; the
\* runner parses that command line.
CargoRunsRunner ==
    /\ pc = "spawned"
    /\ sub = "run"
    /\ LET env == ChildEnv(procenv, cmdenv)
           key == CargoRunnerKey(TargetOfArgv(argv))
       IN  IF key \notin DOMAIN env
           THEN \* no runner: cargo executes the binary itself
                /\ pc' = "direct"
                /\ UNCHANGED <<sub, cargo, arceos, qemu, runnerBinary, argv,
                               cmdenv, piped, procenv, wrote, before, warnings,
                               stream, err, spawned, status, exit, origin>>
           ELSE LET words == SplitWhitespace(env[key])
                    r == ParseRunner(Tail(words)
                                     \o <<BuiltBinary(cargo, arceos)>>)
                    accepted ==
                        r.ok /\ ClapAccepts(Cli("runner", DefaultCargo,
                                                DefaultArceos, r.qemu, r.binary))
                IN  /\ origin' = [active |-> TRUE, arceos |-> arceos,
                                   qemu |-> qemu]
                    /\ procenv' = env
                    /\ sub' = "runner"
                    /\ cargo' = DefaultCargo
                    /\ arceos' = DefaultArceos
                    /\ qemu' = r.qemu
                    /\ runnerBinary' = r.binary
                    /\ IF accepted
                       THEN pc' = "parsed" /\ exit' = Running
                       ELSE pc' = "rejected" /\ exit' = Exited(2)
                    /\ argv' = <<>>
                    /\ cmdenv' = NoEnv
                    /\ piped' = FALSE
                    /\ wrote' = FALSE
                    /\ before' = [exists |-> FALSE, content |-> <<>>]
                    /\ warnings' = <<>>
                    /\ stream' = <<>>
                    /\ err' = NoErr
                    /\ spawned' = <<>>
                    /\ status' = NoStatus
    /\ UNCHANGED <<disk, dirs>>

ProtocolAops ==
    {[arch |-> None, platform |-> None],
     [arch |-> "Riscv64", platform |-> None],
     [arch |-> "Loongarch64", platform |-> None],
     [arch |-> None, platform |-> "AARCH64_RASPI4"],
     [arch |-> None, platform |-> "X86_64_QEMU_Q35"]}

\* run invocations: ways of naming the platform, CPU counts, VM options
ProtocolInputs ==
    {Cli("run", DefaultCargo,
         [WithAop(DefaultArceos, aop) EXCEPT !.cpus = n], q, None) :
       aop \in ProtocolAops, n \in 1..MaxCpus, q \in ProtocolQemu}

NextProtocol ==
    \/ pc = "idle" /\ \E cli \in ProtocolInputs : Invoke(cli)
    \/ CargoBuild
    \/ Apply
    \/ QemuApply
    \/ Spawn
    \/ CargoRunsRunner
    \/ \E host \in Hosts : RunnerStart(host)
    \/ \E st \in ExitStatuses, host \in Hosts : ObjcopyExit(st, host)
    \/ \E st \in ExitStatuses : QemuExit(st)
    \/ RunReturn

SpecProtocol == Init /\ [][NextProtocol]_vars


\* ================================================================ claims
\* States in which the current invocation's apply has returned Ok.
ApplySucceeded == pc \in {"applied", "ready", "spawned", "exited"}

\* The configuration file the built command is pointed at.
Persisted == disk[cmdenv["AX_CONFIG_PATH"]]

\* The values the lines of a serialized document give to <<table, key>>.
ValuesAt(content, table, key) ==
    {content[i][3] : i \in {j \in 1..Len(content) :
                              content[j][1] = table /\ content[j][2] = key}}

LinesAt(content, table, key) ==
    {j \in 1..Len(content) : content[j][1] = table /\ content[j][2] = key}

KeysOfContent(content) ==
    {<<content[i][1], content[i][2]>> : i \in 1..Len(content)}

SmpKey == <<GLOBAL_TABLE_NAME, "smp">>

\* The layers of the current invocation, in merge order.
Layers ==
    <<DefConfig, PlatConfig(OptPlatform(arceos))>>
    \o [i \in 1..Len(arceos.configs) |-> OverrideFiles[arceos.configs[i]].config]

\* Override file i redefines a key of the defaults, the platform fragment
\* or an earlier override file.
Redefines(i) ==
    \E j \in 1..(i + 1) : DOMAIN Layers[j] \cap DOMAIN Layers[i + 2] # {}

Usable(i) ==
    /\ OverrideFiles[arceos.configs[i]].readable
    /\ OverrideFiles[arceos.configs[i]].parsable

\* C1: after a successful apply the persisted document has exactly one global
\* `smp` item, its value is the invocation's cpus, and AX_SMP carries the
\* same value.
C1_SmpIsCpus ==
    ApplySucceeded =>
        /\ Cardinality(LinesAt(Persisted, GLOBAL_TABLE_NAME, "smp")) = 1
        /\ ValuesAt(Persisted, GLOBAL_TABLE_NAME, "smp") = {ToString(arceos.cpus)}
        /\ cmdenv["AX_SMP"] = ToString(arceos.cpus)

\* C1 witness: an apply with an override file and a cpus value that is not
\* the default has succeeded.
C1_Witness ==
    /\ ApplySucceeded
    /\ arceos.cpus = MaxCpus
    /\ arceos.configs # <<>>
    /\ arceos.platform = "X86_64_QEMU_Q35"

ExpectedKeys == UNION {DOMAIN Layers[j] : j \in 1..Len(Layers)}

IsSerializedDocument(content) ==
    /\ KeysOfContent(content) = ExpectedKeys
    /\ Len(content) = Cardinality(ExpectedKeys)
    /\ \A i \in 1..Len(content) :
          LET k == <<content[i][1], content[i][2]>>
          IN  IF k = SmpKey THEN content[i][3] = ToString(arceos.cpus)
              ELSE \E j \in 1..Len(Layers) :
                      k \in DOMAIN Layers[j] /\ content[i][3] = Layers[j][k]

\* C3: in every invocation whose apply succeeds the configuration file is
\* written exactly when apply found it absent or holding something else than
\* the document now serialized; when it is not written its content is what
\* apply found; either way it ends holding the serialized document.
C3_WriteIffChanged ==
    ApplySucceeded =>
        /\ IsSerializedDocument(Persisted)
        /\ wrote <=> (~before.exists \/ ~IsSerializedDocument(before.content))
        /\ ~wrote => Persisted = before.content
        /\ cmdenv["AX_CONFIG_PATH"] = ConfigPath(cargo, arceos)

\* C3 witness: an invocation with the inputs of an earlier one found the file
\* as it would write it, and did not write.
C3_Witness ==
    /\ ApplySucceeded
    /\ ~wrote
    /\ before.exists
    /\ arceos.cpus = MaxCpus
    /\ arceos.configs = <<"app.toml">>

\* The first override file, in command-line order, that cannot be read,
\* parsed or merged; 0 when there is none.
FirstBad ==
    IF \E i \in 1..Len(arceos.configs) : ~Usable(i) \/ Redefines(i)
    THEN CHOOSE i \in 1..Len(arceos.configs) :
             /\ ~Usable(i) \/ Redefines(i)
             /\ \A j \in 1..(i - 1) : Usable(j) /\ ~Redefines(j)
    ELSE 0

\* C9: when an override file cannot be read, parsed or merged, apply fails
\* with an error that names the first such file and says which of the three
\* it was; the configuration file is as apply found it (absent if it was
\* absent), the command has no environment variable set, and no external
\* program was started.
C9_OverrideFailure ==
    /\ (FirstBad # 0 /\ pc \notin {"idle", "parsed", "built"}) =>
          /\ pc \in {"failed", "returned"}
          /\ err.path = arceos.configs[FirstBad]
          /\ err.kind =
                (IF ~OverrideFiles[arceos.configs[FirstBad]].readable THEN "read"
                 ELSE IF ~OverrideFiles[arceos.configs[FirstBad]].parsable
                      THEN "parse"
                      ELSE "merge")
          /\ Exists(disk, ConfigPath(cargo, arceos)) = before.exists
          /\ before.exists => disk[ConfigPath(cargo, arceos)] = before.content
          /\ ~wrote
          /\ DOMAIN cmdenv = {}
          /\ spawned = <<>>
    /\ (FirstBad = 0 /\ pc \notin {"idle", "parsed", "built"}) => ApplySucceeded

\* C9 witness: the second of two override files could not be parsed, and the
\* configuration file of an earlier invocation is still on disk.
C9_Witness ==
    /\ pc = "returned"
    /\ err = [kind |-> "parse", path |-> "broken.toml"]
    /\ arceos.configs = <<"app.toml", "broken.toml">>
    /\ before.exists
    /\ disk[ConfigPath(cargo, arceos)] = before.content

\* The target identifier an architecture name and the float mode stand for.
ExpectedTarget(archName, soft_float) ==
    CASE archName = "aarch64" ->
             IF soft_float THEN "aarch64-unknown-none-softfloat"
             ELSE "aarch64-unknown-none"
      [] archName = "loongarch64" -> "loongarch64-unknown-none"
      [] archName = "riscv64" -> "riscv64gc-unknown-none-elf"
      [] archName = "x86_64" -> "x86_64-unknown-none"

\* The platform an architecture stands for when none is named.
DefaultPlatformName(arch) ==
    CASE arch = "Aarch64" -> "aarch64-qemu-virt"
      [] arch = "Loongarch64" -> "loongarch64-qemu-virt"
      [] arch = "Riscv64" -> "riscv64-qemu-virt"
      [] arch = "X86_64" -> "x86_64-qemu-q35"

\* C4: after apply, a platform other than dummy has RUSTFLAGS set to the
\* linker script <target_dir>/<target>/<profile>/linker_<platform>.lds,
\* -no-pie and -znostart-stop-gc, and nothing else; the dummy platform has no
\* RUSTFLAGS set.
C4_LinkFlags ==
    ApplySucceeded =>
        IF cmdenv["AX_PLATFORM"] # "dummy"
        THEN /\ "RUSTFLAGS" \in DOMAIN cmdenv
             /\ cmdenv["RUSTFLAGS"] =
                    "-C link-arg=-T" \o MetadataTargetDirectory \o "/"
                    \o ExpectedTarget(cmdenv["AX_ARCH"], arceos.soft_float) \o "/"
                    \o cmdenv["AX_MODE"] \o "/linker_" \o cmdenv["AX_PLATFORM"]
                    \o ".lds -C link-arg=-no-pie -C link-arg=-znostart-stop-gc"
        ELSE /\ "RUSTFLAGS" \notin DOMAIN cmdenv
             /\ arceos.arch = None
             /\ arceos.platform \in {None, "Dummy"}

\* C4 witness: apply has set the link flags of a soft-float release build for
\* a named aarch64 board.
C4_Witness ==
    /\ ApplySucceeded
    /\ arceos.platform = "AARCH64_RASPI4"
    /\ arceos.soft_float
    /\ cargo.release
    /\ "RUSTFLAGS" \in DOMAIN cmdenv

\* C5: every command line clap accepts resolves: a named architecture to its
\* default platform, whose architecture is that architecture; a named
\* platform to itself; neither to dummy; and the target is the one of the
\* resolved architecture and the float mode.
C5_Resolution ==
    /\ pc \notin {"idle", "parsed", "built", "rejected"} => ApplySucceeded
    /\ ApplySucceeded =>
          /\ arceos.arch # None =>
                /\ cmdenv["AX_PLATFORM"] = DefaultPlatformName(arceos.arch)
                /\ cmdenv["AX_ARCH"] = ArchName(arceos.arch)
          /\ (arceos.arch = None /\ arceos.platform # None) =>
                /\ cmdenv["AX_PLATFORM"] = PlatformName(arceos.platform)
                /\ PlatformFromStr(cmdenv["AX_PLATFORM"]) = arceos.platform
          /\ (arceos.arch = None /\ arceos.platform = None) =>
                cmdenv["AX_PLATFORM"] = "dummy"
          /\ cmdenv["AX_TARGET"] =
                ExpectedTarget(cmdenv["AX_ARCH"], arceos.soft_float)

\* C5 witness: a soft-float build for a named architecture that is not
\* aarch64 has been resolved.
C5_Witness ==
    /\ ApplySucceeded
    /\ arceos.arch = "Loongarch64"
    /\ arceos.soft_float
    /\ cmdenv["AX_TARGET"] = "loongarch64-unknown-none"

CountOf(args, a) == Cardinality({i \in 1..Len(args) : args[i] = a})

TargetWarnings(ws) ==
    Cardinality({i \in 1..Len(ws) : ws[i].kind = "target_ignored"})

\* C6: build() leaves no passed --target value and warns once exactly when
\* there was one; after apply the command line has one --target, followed by
\* the resolved target, and that command line is the one spawned.
C6_TargetOwned ==
    [][/\ (pc = "parsed" /\ pc' = "built") =>
              /\ cargo'.target = <<>>
              /\ TargetWarnings(warnings') = (IF cargo.target # <<>> THEN 1 ELSE 0)
              /\ CountOf(argv', "--target") = 0
       /\ (pc = "built" /\ pc' \in {"applied", "ready"}) =>
              /\ CountOf(argv', "--target") = 1
              /\ \E i \in 1..(Len(argv') - 1) :
                    /\ argv'[i] = "--target"
                    /\ argv'[i + 1] =
                          ExpectedTarget(cmdenv'["AX_ARCH"], arceos.soft_float)
              /\ \A t \in UNION {{ts[i] : i \in 1..Len(ts)} : ts \in TargetLists} :
                    CountOf(argv', t) = 0
              /\ warnings' = warnings
       /\ (pc \in {"applied", "ready"} /\ pc' # pc) => argv' = argv
      ]_vars

\* C6 witness: cargo is spawned by clippy after a passed --target was cleared
\* with a warning.
C6_Witness ==
    /\ pc = "spawned"
    /\ sub = "clippy"
    /\ TargetWarnings(warnings) = 1
    /\ arceos.arch = "Aarch64"
    /\ arceos.soft_float

\* The feature warnings the i-th artifact message drew for a feature.
FeatureWarnings(i, name) ==
    {j \in 1..Len(warnings) :
        /\ warnings[j].kind = "feature"
        /\ warnings[j].at = i
        /\ warnings[j].feature = name}

\* C7: an artifact message of a component draws one warning for `smp` when
\* cpus > 1, the component is in SMP's list and `smp` is not declared, and
\* none otherwise; likewise for `fp_simd` when the architecture is aarch64
\* without soft float.  Every warning names the message's component, and the
\* messages neither fail the invocation nor change what it exits with.
C7_FeatureWarnings ==
    /\ \A i \in 1..Len(stream) :
          /\ Cardinality(FeatureWarnings(i, "smp")) =
                (IF /\ arceos.cpus > 1
                    /\ stream[i].package \in SMP.packages
                    /\ "smp" \notin stream[i].features
                 THEN 1 ELSE 0)
          /\ Cardinality(FeatureWarnings(i, "fp_simd")) =
                (IF /\ cmdenv["AX_ARCH"] = "aarch64"
                    /\ ~arceos.soft_float
                    /\ stream[i].package \in FP_SIMD.packages
                    /\ "fp_simd" \notin stream[i].features
                 THEN 1 ELSE 0)
    /\ \A j \in 1..Len(warnings) :
          warnings[j].kind = "feature" =>
              /\ warnings[j].at \in 1..Len(stream)
              /\ warnings[j].package = stream[warnings[j].at].package
              /\ warnings[j].feature \in {"smp", "fp_simd"}
    /\ stream # <<>> =>
          /\ pc \in {"spawned", "exited"}
          /\ err = NoErr
          /\ pc = "exited" =>
                exit.code = (IF status.kind = "code" THEN status.code ELSE 101)

\* C7 witness: with cpus = 2 a listed component that declared nothing drew
\* one smp warning and a listed component that declared smp drew none.
C7_Witness ==
    /\ arceos.cpus = 2
    /\ Len(stream) = 2
    /\ stream[1] = [package |-> "axtask", features |-> {}]
    /\ stream[2] = [package |-> "axtask", features |-> {"smp"}]
    /\ Cardinality(FeatureWarnings(1, "smp")) = 1
    /\ FeatureWarnings(2, "smp") = {}

\* The runner invocation has ended.
RunnerEnded == sub = "runner" /\ exit.done /\ pc # "rejected"

EmulatorPrograms == {ProgramOf(a) : a \in Archs}

\* C8: the runner's exit code is the emulator's (101 when its status has no
\* code); a failed image conversion or emulator run ends it with a failure
\* code; without a valid AX_PLATFORM it ends with a failure code and has
\* started no external program.
C8_ExitMirrorsEmulator ==
    RunnerEnded =>
        /\ (spawned # <<>> /\ spawned[Len(spawned)] \in EmulatorPrograms
            /\ status.kind \in {"code", "signal"}) =>
               exit.code = (IF status.kind = "code" THEN status.code ELSE 101)
        /\ err.kind \in {"command", "io"} => exit.code # 0
        /\ ("AX_PLATFORM" \notin DOMAIN procenv
            \/ PlatformFromStr(procenv["AX_PLATFORM"]) = None) =>
               /\ exit.code # 0
               /\ spawned = <<>>

IsSubSeq(xs, args) ==
    \E i \in 0..(Len(args) - Len(xs)) :
        \A j \in 1..Len(xs) : args[i + j] = xs[j]

\* C10: a command line with both debug and accel is refused before anything
\* is synthesized or started; an emulator command line synthesized with debug
\* set has -s -S, no -accel and no host CPU model, on every host.
C10_DebugExcludesAccel ==
    /\ (qemu.debug /\ qemu.accel) =>
          /\ pc = "rejected"
          /\ argv = <<>>
          /\ spawned = <<>>
          /\ exit.code # 0
    /\ (qemu.debug /\ argv # <<>> /\ argv[1] \in EmulatorPrograms) =>
          /\ IsSubSeq(<<"-s", "-S">>, argv)
          /\ CountOf(argv, "-accel") = 0
          /\ ~IsSubSeq(<<"-cpu", "host">>, argv)
          /\ CountOf(argv, "kvm") = 0
          /\ CountOf(argv, "hvf") = 0

\* C10 witness: the emulator command line of a debug run has been
\* synthesized for a platform whose architecture hosts can accelerate.
C10_Witness ==
    /\ pc = "qemu"
    /\ qemu.debug
    /\ procenv["AX_PLATFORM"] = "x86_64-qemu-q35"
    /\ argv[1] = "qemu-system-x86_64"
    /\ IsSubSeq(<<"-s", "-S">>, argv)

\* ------------------------------------------------------------ C11
EmulatorArgv == argv # <<>> /\ argv[1] \in EmulatorPrograms

\* the display device of a bus kind
GpuDeviceOf(bus) == IF bus = "Mmio" THEN "virtio-gpu-device" ELSE "virtio-gpu-pci"

GpuDevices == {"virtio-gpu-pci", "virtio-gpu-device"}

\* C11: an emulator command line has exactly one console mode.  With
\* graphics it has the display device of the chosen bus kind (pci when no bus
\* was given) and -serial mon:stdio, and no -nographic; without graphics it
\* has -nographic once, no display device and no serial redirection.
C11_ConsoleMode ==
    EmulatorArgv =>
        IF qemu.graphics
        THEN /\ IsSubSeq(<<"-device", GpuDeviceOf(qemu.bus)>>, argv)
             /\ \A d \in GpuDevices \ {GpuDeviceOf(qemu.bus)} : CountOf(argv, d) = 0
             /\ IsSubSeq(<<"-serial", "mon:stdio">>, argv)
             /\ CountOf(argv, "-nographic") = 0
        ELSE /\ CountOf(argv, "-nographic") = 1
             /\ \A d \in GpuDevices : CountOf(argv, d) = 0
             /\ CountOf(argv, "mon:stdio") = 0

\* C11 witness: the emulator command line of a graphics run on the mmio bus,
\* with network and disk devices next to the display device.
C11_Witness ==
    /\ pc = "qemu"
    /\ qemu.graphics
    /\ qemu.bus = "Mmio"
    /\ qemu.disk # None
    /\ qemu.net # None
    /\ EmulatorArgv
    /\ CountOf(argv, "virtio-gpu-device") = 1

\* ------------------------------------------------------------ C12
\* the platform the runner read from its environment
RunnerPlatform ==
    IF "AX_PLATFORM" \in DOMAIN procenv
    THEN PlatformFromStr(procenv["AX_PLATFORM"])
    ELSE None

\* the default memory sizes of the run platforms
DefaultMem(platform) ==
    CASE platform = "AARCH64_RASPI4" -> "2G"
      [] platform = "LOONGARCH64_QEMU_VIRT" -> "1G"
      [] OTHER -> None

\* the platforms that cannot be run
NotRunnable ==
    {"Dummy", "AARCH64_BSTA1000B", "AARCH64_PHYTIUM_PI", "X86_64_PC_OSLAB"}

\* C12: the emulator command line has -m with the explicit --mem value when
\* one was given, else with the platform's default (2G on raspi4, 1G on
\* loongarch64 virt), else no -m at all; never more than one -m.  A runner
\* started for a platform that cannot be run fails with the unsupported
\* platform error and has started neither rust-objcopy nor an emulator.
C12_Memory ==
    /\ EmulatorArgv =>
          LET expected == IF qemu.mem # None THEN qemu.mem
                          ELSE DefaultMem(RunnerPlatform)
          IN  IF expected = None
              THEN CountOf(argv, "-m") = 0
              ELSE /\ CountOf(argv, "-m") = 1
                   /\ IsSubSeq(<<"-m", expected>>, argv)
    /\ (sub = "runner" /\ pc \notin {"idle", "parsed", "rejected"}
        /\ RunnerPlatform \in NotRunnable) =>
          /\ err.kind = "unsupported"
          /\ err.path = PlatformName(RunnerPlatform)
          /\ spawned = <<>>
          /\ argv = <<>>

\* C12 witness: the emulator command line for the raspi4 board, whose
\* default is 2G, of a run that asked for 512M.
C12_Witness ==
    /\ pc = "qemu"
    /\ RunnerPlatform = "AARCH64_RASPI4"
    /\ qemu.mem = "512M"
    /\ IsSubSeq(<<"-m", "512M">>, argv)

\* ------------------------------------------------------------ C13
\* the words of the runner command a run invocation registered
RegisteredWords ==
    SplitWhitespace(cmdenv[CargoRunnerKey(OptTarget(arceos))])

\* the runner command names exactly the options that are set in q
NamesOptionsOf(words, q) ==
    /\ CountOf(words, "--smp") = (IF q.smp # None THEN 1 ELSE 0)
    /\ CountOf(words, "--mem") = (IF q.mem # None THEN 1 ELSE 0)
    /\ CountOf(words, "--bus") = (IF q.bus # None THEN 1 ELSE 0)
    /\ CountOf(words, "--net") + CountOf(words, "--net=user")
          = (IF q.net # None THEN 1 ELSE 0)
    /\ CountOf(words, "--net-dump") = (IF q.net_dump # None THEN 1 ELSE 0)
    /\ CountOf(words, "--disk") = (IF q.disk # None THEN 1 ELSE 0)
    /\ CountOf(words, "--graphics") = (IF q.graphics THEN 1 ELSE 0)
    /\ CountOf(words, "--accel") = (IF q.accel THEN 1 ELSE 0)
    /\ CountOf(words, "--debug") = (IF q.debug THEN 1 ELSE 0)

\* C13: a run invocation registers the runner command under
\* CARGO_TARGET_<TARGET>_RUNNER for its resolved target, naming exactly the
\* VM options that were set; the runner cargo then starts has parsed the same
\* VM options, reads back the platform resolved at build time, finds the
\* build's CPU count in AX_SMP, and gives the emulator the --smp value when
\* there was one and that CPU count otherwise.
C13_RunnerSeesContext ==
    /\ (sub = "run" /\ pc \in {"ready", "spawned"}) =>
          /\ CargoRunnerKey(OptTarget(arceos)) \in DOMAIN cmdenv
          /\ NamesOptionsOf(RegisteredWords, qemu)
    /\ origin.active =>
          /\ pc # "rejected"
          /\ qemu = origin.qemu
          /\ RunnerPlatform = OptPlatform(origin.arceos)
          /\ procenv["AX_SMP"] = CpusToString(origin.arceos.cpus)
          /\ EmulatorArgv =>
                IsSubSeq(<<"-smp", IF origin.qemu.smp # None
                                   THEN origin.qemu.smp
                                   ELSE CpusToString(origin.arceos.cpus)>>,
                         argv)

====
